---- MODULE Spec2Model ----
(***************************************************************************)
(* A model of the time-bounded brute-force TSP search of tsp_solver.py     *)
(* (brute_force_tsp and its helpers) and of the benchmark harness of       *)
(* generate_results.py (generate_results_csv).                             *)
(*                                                                         *)
(* Reals are fixed-point integers: a distance is the floor of Scale times  *)
(* the Euclidean distance, so sums are exact and associative. float('inf') *)
(* is the sentinel Inf, ordered above every distance by FloatLess.         *)
(* Time is the integer `now`: the value of time.time() - start_time.       *)
(***************************************************************************)
EXTENDS Integers, Sequences, FiniteSets

\* ------------------------------------------------------------------ bounds
MaxN == 4          \* most vertices of an instance
MaxCoord == 1      \* coordinates are drawn from (0..MaxCoord) x (0..MaxCoord)
MaxBack == 1       \* how far below start_time the wall clock may step back
MaxTime == 1       \* greatest elapsed time the clock reports
Scale == 10        \* fixed-point units per unit of distance
\* check_interval is 10000 in tsp_solver.py line 111; the model keeps the code's
\* arithmetic on it and uses a small value so that periodic checks happen
\* within the (MaxN-1)! orderings the bounds allow.
check_interval == 3

NumDatasets == 2   \* most datasets of a harness run
MaxQuality == 2    \* solution qualities are 0..MaxQuality, in units of 0.01
ls_runs == 2       \* the ls_runs argument of generate_results_csv

Inf == -1          \* float('inf'): above every distance (see FloatLess)
None == <<>>       \* best_tour = None

VARIABLES
    coordinates,    \* the dict, as the sequence of its <<id, <<x, y>>>> items in insertion order
    cutoff_time,    \* the budget
    pc,             \* position in brute_force_tsp
    now,            \* time.time() - start_time, as the clock would report it now
    monotonic,      \* history: the clock has not stepped back so far
    vertices, best_tour, best_distance, checked, perm,
    result,         \* the returned (tour, distance), or None before the return
    evaluated,      \* history: the candidate tours evaluated, in order
    sampled,        \* history: the ordinals at which the clock was sampled
    broke,          \* history: a time-check fired (the loop ended by break)
    atBreak,        \* history: the incumbent (best_tour, best_distance) when the check fired
    exceeded,       \* history: the elapsed time has exceeded the budget at some moment
    late            \* history: candidates evaluated after the elapsed time first exceeded the budget

VARIABLES
    hpc,            \* position in generate_results_csv
    datasets,       \* the datasets argument
    di,             \* how many datasets the for statement has taken
    row, results, best_quality,
    csv,            \* the rows written to results.csv, or None before the write
    loadFailed,     \* history: the datasets whose parse_tsp_file raised
    ran,            \* history: the <<dataset, solver>> pairs that were invoked
    raised,         \* history: the <<dataset, solver>> pairs whose solver raised
    seen            \* history: per row, the least quality any of the three solvers returned

hvars == <<hpc, datasets, di, row, results, best_quality, csv, loadFailed, ran,
           raised, seen>>

svars == <<coordinates, cutoff_time, pc, now, monotonic, vertices, best_tour,
           best_distance, checked, perm, result, evaluated, sampled,
           broke, atBreak, exceeded, late>>

\* ----------------------------------------------------------------- helpers
Range(s) == {s[i] : i \in 1..Len(s)}

Keys(c) == [i \in 1..Len(c) |-> c[i][1]]

\* coordinates[v]
Lookup(c, v) == (CHOOSE i \in 1..Len(c) : c[i][1] = v)

Coord(c, v) == c[Lookup(c, v)][2]

SetMin(S) == CHOOSE m \in S : \A x \in S : m <= x

RECURSIVE SortSet(_)
SortSet(S) == IF S = {} THEN <<>>
              ELSE <<SetMin(S)>> \o SortSet(S \ {SetMin(S)})

\* a mutant: the keys are taken in the dict's own order, unsorted
sortedMut(ks) == ks

\* sorted(coordinates.keys())
sorted(ks) == SortSet(Range(ks))

RemoveAt(s, i) == [j \in 1..(Len(s) - 1) |-> IF j < i THEN s[j] ELSE s[j + 1]]

\* a mutant: only the orderings that keep the first element in place
permutationsMut(s) == << s >>

RECURSIVE permutations(_), PermsFrom(_, _)
\* itertools.permutations(s): every ordering, in lexicographic order of positions
permutations(s) == IF Len(s) = 0 THEN << <<>> >> ELSE PermsFrom(s, 1)

PermsFrom(s, i) ==
    IF i > Len(s) THEN <<>>
    ELSE LET rest == permutations(RemoveAt(s, i))
         IN  [k \in 1..Len(rest) |-> <<s[i]>> \o rest[k]] \o PermsFrom(s, i + 1)


\* floor(sqrt(v)) by bisection on lo..hi
RECURSIVE ISqrtIn(_, _, _)
ISqrtIn(v, lo, hi) ==
    IF lo >= hi THEN lo
    ELSE LET mid == (lo + hi + 1) \div 2
         IN  IF mid * mid <= v THEN ISqrtIn(v, mid, hi) ELSE ISqrtIn(v, lo, mid - 1)

ISqrt(v) == ISqrtIn(v, 0, v)

\* math.sqrt((x2 - x1) ** 2 + (y2 - y1) ** 2), in fixed point
euclidean_distance(coord1, coord2) ==
    LET x1 == coord1[1]
        y1 == coord1[2]
        x2 == coord2[1]
        y2 == coord2[2]
    IN  ISqrt(((x2 - x1) * (x2 - x1) + (y2 - y1) * (y2 - y1)) * Scale * Scale)

\* the for loop of calculate_tour_distance: edges tour[i] -> tour[i+1], i < len(tour)-1
RECURSIVE ConsecutiveSum(_, _, _)
ConsecutiveSum(tour, c, i) ==
    IF i > Len(tour) - 1 THEN 0
    ELSE euclidean_distance(Coord(c, tour[i]), Coord(c, tour[i + 1]))
         + ConsecutiveSum(tour, c, i + 1)

\* a mutant: the closing edge from the last city back to the first is left out
calculate_tour_distanceMut(tour, c) ==
    IF Len(tour) < 2 THEN 0 ELSE ConsecutiveSum(tour, c, 1)

calculate_tour_distance(tour, c) ==
    IF Len(tour) < 2 THEN 0
    ELSE ConsecutiveSum(tour, c, 1)
         + euclidean_distance(Coord(c, tour[Len(tour)]), Coord(c, tour[1]))

\* a < b on floats, float('inf') included
FloatLess(a, b) == IF a = Inf THEN FALSE ELSE IF b = Inf THEN TRUE ELSE a < b

FloatLeq(a, b) == a = b \/ FloatLess(a, b)

\* ------------------------------------------------------ brute_force_tsp
start_vertex == vertices[1]

remaining_vertices == Tail(vertices)

\* a mutant: the anchor is left out of the candidate
CandidateMut(sv, p) == p

\* tour = [start_vertex] + list(perm)
Candidate(sv, p) == <<sv>> \o p

\* a mutant: the clock is sampled one candidate after each interval
IsCheckIterationMut(k) == k = 1 \/ k % check_interval = 1

\* if checked == 1 or checked % check_interval == 0
IsCheckIteration(k) == k = 1 \/ k % check_interval = 0

\* a mutant: the comparison is the wrong way round
TimeExceededSwap(elapsed, cutoff) == elapsed < cutoff

\* a mutant: the check fires as soon as the budget is reached
TimeExceededMut(elapsed, cutoff) == elapsed >= cutoff

\* if elapsed > cutoff_time
TimeExceeded(elapsed, cutoff) == elapsed > cutoff

\* a mutant: a candidate as short as the incumbent replaces it too
ImprovesLeq(distance, best) == FloatLeq(distance, best)

\* a mutant: every candidate replaces the incumbent
ImprovesMut(distance, best) == TRUE

\* if distance < best_distance
Improves(distance, best) == FloatLess(distance, best)

\* best_tour = [start_vertex] + remaining_vertices
DefaultTour(vs) == <<vs[1]>> \o Tail(vs)

\* ------------------------------------------------------------------ inputs
Points == (0..MaxCoord) \X (0..MaxCoord)

\* budgets: negative, zero, positive
Budgets == {0 - 1, 0, 1}

Times == (0 - MaxBack)..MaxTime

Reverse(s) == [i \in 1..Len(s) |-> s[Len(s) + 1 - i]]

\* the insertion order of the dict: the instance lists its nodes by ascending
\* or by descending ID
KeyOrders(S) == {SortSet(S), Reverse(SortSet(S))}

SolverIdle ==
    /\ coordinates = <<>>
    /\ cutoff_time = 0
    /\ now = 0
    /\ monotonic = TRUE
    /\ vertices = <<>>
    /\ best_tour = None
    /\ best_distance = Inf
    /\ checked = 0
    /\ perm = <<>>
    /\ result = None
    /\ evaluated = <<>>
    /\ sampled = {}
    /\ broke = FALSE
    /\ atBreak = None
    /\ exceeded = FALSE
    /\ late = 0

HarnessIdle ==
    /\ datasets = <<>>
    /\ di = 0
    /\ row = <<>>
    /\ results = <<>>
    /\ best_quality = Inf
    /\ csv = None
    /\ loadFailed = {}
    /\ ran = {}
    /\ raised = {}
    /\ seen = <<>>

\* brute_force_tsp is called with a coordinate map and a budget
Init ==
    /\ SolverIdle
    /\ HarnessIdle
    /\ hpc = "idle"
    /\ pc = "call"

\* The wall clock moves while the program runs: to any later reading, or back.
Tick ==
    \E t \in Times :
        /\ now' = t
        /\ monotonic' = (monotonic /\ t >= now)
        /\ exceeded' = (exceeded \/ t > cutoff_time)

\* the call: the arguments of brute_force_tsp(coordinates, cutoff_time)
Call ==
    /\ pc = "call"
    /\ \E S \in SUBSET (1..MaxN) :
         \E order \in KeyOrders(S) :
           \E pts \in [S -> Points] :
             coordinates' = [i \in 1..Len(order) |-> <<order[i], pts[order[i]]>>]
    /\ cutoff_time' \in Budgets
    /\ pc' = "start"
    /\ UNCHANGED <<now, monotonic, vertices, best_tour, best_distance, checked,
                   perm, result, evaluated, sampled, broke, atBreak, exceeded, late>>
    /\ UNCHANGED hvars

\* lines 93-109: start_time, the sort, the degenerate returns, the loop's locals
Start ==
    /\ pc = "start"
    /\ vertices' = sorted(Keys(coordinates))
    /\ Tick
    /\ IF Len(vertices') = 0 THEN /\ result' = << <<>>, 0 >>
                                  /\ pc' = "done"
       ELSE IF Len(vertices') = 1 THEN /\ result' = <<vertices', 0>>
                                       /\ pc' = "done"
       ELSE /\ result' = result
            /\ pc' = "for"
    /\ UNCHANGED <<coordinates, cutoff_time, best_tour, best_distance, checked,
                   perm, evaluated, sampled, broke, atBreak, late>>
    /\ UNCHANGED hvars

\* line 118-119: the for statement takes the next permutation and counts it, or
\* the iterator is exhausted and the loop ends
ForNext ==
    /\ pc = "for"
    /\ LET perms == permutations(remaining_vertices)
       IN  IF checked < Len(perms)
           THEN /\ perm' = perms[checked + 1]
                /\ checked' = checked + 1
                /\ pc' = "check"
           ELSE /\ pc' = "after"
                /\ UNCHANGED <<perm, checked>>
    /\ UNCHANGED <<coordinates, cutoff_time, now, monotonic, vertices, best_tour,
                   best_distance, result, evaluated, sampled, broke, atBreak,
                   exceeded, late>>
    /\ UNCHANGED hvars

\* lines 122-126: the periodic time-check; time passes after it
Check ==
    /\ pc = "check"
    /\ IF IsCheckIteration(checked)
       THEN /\ sampled' = sampled \cup {checked}
            /\ IF TimeExceeded(now, cutoff_time)
               THEN /\ pc' = "after"
                    /\ broke' = TRUE
                    /\ atBreak' = <<best_tour, best_distance>>
               ELSE /\ pc' = "eval"
                    /\ UNCHANGED <<broke, atBreak>>
       ELSE /\ pc' = "eval"
            /\ UNCHANGED <<sampled, broke, atBreak>>
    /\ Tick
    /\ UNCHANGED <<coordinates, cutoff_time, vertices, best_tour, best_distance,
                   checked, perm, result, evaluated, late>>
    /\ UNCHANGED hvars

\* lines 129-134: build the candidate, measure it, keep it if strictly shorter
Eval ==
    /\ pc = "eval"
    /\ LET tour == Candidate(start_vertex, perm)
           distance == calculate_tour_distance(tour, coordinates)
       IN  /\ evaluated' = Append(evaluated, tour)
           /\ IF Improves(distance, best_distance)
              THEN /\ best_distance' = distance
                   /\ best_tour' = tour
              ELSE UNCHANGED <<best_distance, best_tour>>
    /\ late' = IF exceeded THEN late + 1 ELSE late
    /\ pc' = "for"
    /\ UNCHANGED <<coordinates, cutoff_time, now, monotonic, vertices, checked,
                   perm, result, sampled, broke, atBreak, exceeded>>
    /\ UNCHANGED hvars

\* lines 136-141: the fallback tour when there is no incumbent, and the return
Return ==
    /\ pc = "after"
    /\ IF best_tour = None
       THEN /\ best_tour' = DefaultTour(vertices)
            /\ best_distance' = calculate_tour_distance(best_tour', coordinates)
       ELSE UNCHANGED <<best_tour, best_distance>>
    /\ result' = <<best_tour', best_distance'>>
    /\ pc' = "done"
    /\ UNCHANGED <<coordinates, cutoff_time, now, monotonic, vertices, checked,
                   perm, evaluated, sampled, broke, atBreak, exceeded, late>>
    /\ UNCHANGED hvars

Next == Call \/ Start \/ ForNext \/ Check \/ Eval \/ Return

vars == <<svars, hvars>>

Spec == Init /\ [][Next]_vars

\* ------------------------------------------------- generate_results_csv
\* A cell of a row: a number, or one of the strings the harness writes.
Num(v) == [kind |-> "num", val |-> v]

Str(t) == [kind |-> t, val |-> 0]

\* isinstance(x, (int, float))
IsNumber(cell) == cell.kind = "num"

\* The qualities a solver may return, in units of 0.01. The measured times play
\* no part in what the harness decides: a Time cell that holds a number holds 0.
Qualities == 0..MaxQuality

Solvers == {"BF", "Approx", "LS"}

RECURSIVE SeqSum(_, _)
SeqSum(q, i) == IF i = 0 THEN 0 ELSE q[i] + SeqSum(q, i - 1)

\* min(qualities)
SeqMin(q) == SetMin(Range(q))

\* round(num / den) for den > 0, ties to the even neighbour as Python rounds
RoundHalfEven(num, den) ==
    LET f == num \div den
        r == num % den
    IN  IF 2 * r < den THEN f
        ELSE IF 2 * r > den THEN f + 1
        ELSE IF f % 2 = 0 THEN f ELSE f + 1

\* round(statistics.mean(qualities), 2): qualities are in units of 0.01
MeanRounded(q) == RoundHalfEven(SeqSum(q, Len(q)), Len(q))

\* lines 93-97; the result is in units of 0.00001
calculate_relative_error(quality, best) ==
    IF best = 0 THEN 0
    ELSE RoundHalfEven((quality - best) * 100000, best)

EmptyRow(d) ==
    [Dataset |-> Num(d),
     BF_Time |-> Str("unset"), BF_Quality |-> Str("unset"), BF_FullTour |-> Str("unset"),
     Approx_Time |-> Str("unset"), Approx_Quality |-> Str("unset"),
     Approx_RelError |-> Str("unset"),
     LS_Time |-> Str("unset"), LS_Quality |-> Str("unset"), LS_RelError |-> Str("unset")]

\* history: the current row's least quality so far, q included
Saw(h, q) == [h EXCEPT ![Len(h)] = IF FloatLess(q, h[Len(h)]) THEN q ELSE h[Len(h)]]

\* generate_results_csv is called with a list of datasets
HInit ==
    /\ SolverIdle
    /\ HarnessIdle
    /\ pc = "idle"
    /\ hpc = "call"

HCall ==
    /\ hpc = "call"
    /\ \E n \in 0..NumDatasets : datasets' = [i \in 1..n |-> i]
    /\ hpc' = "for"
    /\ UNCHANGED <<di, row, results, best_quality, csv, loadFailed, ran, raised, seen>>
    /\ UNCHANGED svars

\* lines 103-114: the next dataset is parsed; a failure skips to the next one
HParse ==
    /\ hpc = "for"
    /\ di < Len(datasets)
    /\ di' = di + 1
    /\ \/ /\ loadFailed' = loadFailed \cup {datasets[di']}
          /\ hpc' = "for"
          /\ UNCHANGED <<row, seen>>
       \/ /\ row' = EmptyRow(datasets[di'])
          /\ hpc' = "bf"
          /\ seen' = Append(seen, Inf)
          /\ UNCHANGED loadFailed
    /\ UNCHANGED <<datasets, results, best_quality, csv, ran, raised>>
    /\ UNCHANGED svars

\* a mutant: the handler of a Brute Force failure skips the rest of the instance
HBruteForceMut ==
    /\ hpc = "bf"
    /\ ran' = ran \cup {<<datasets[di], "BF">>}
    /\ \/ \E q \in Qualities, full \in {"Yes", "No"} :
            /\ row' = [row EXCEPT !.BF_Time = Num(0), !.BF_Quality = Num(q),
                                  !.BF_FullTour = Str(full)]
            /\ seen' = Saw(seen, q)
            /\ hpc' = "approx"
            /\ UNCHANGED raised
       \/ /\ raised' = raised \cup {<<datasets[di], "BF">>}
          /\ hpc' = "for"
          /\ UNCHANGED <<row, seen>>
    /\ UNCHANGED <<datasets, di, results, best_quality, csv, loadFailed>>
    /\ UNCHANGED svars

\* lines 116-125: the brute-force solver returns a quality, or raises
HBruteForce ==
    /\ hpc = "bf"
    /\ ran' = ran \cup {<<datasets[di], "BF">>}
    /\ \/ \E q \in Qualities, full \in {"Yes", "No"} :
            /\ row' = [row EXCEPT !.BF_Time = Num(0), !.BF_Quality = Num(q),
                                  !.BF_FullTour = Str(full)]
            /\ seen' = Saw(seen, q)
            /\ UNCHANGED raised
       \/ /\ row' = [row EXCEPT !.BF_Time = Str("Error"), !.BF_Quality = Str("Error"),
                                !.BF_FullTour = Str("No")]
          /\ raised' = raised \cup {<<datasets[di], "BF">>}
          /\ UNCHANGED seen
    /\ hpc' = "approx"
    /\ UNCHANGED <<datasets, di, results, best_quality, csv, loadFailed>>
    /\ UNCHANGED svars

\* lines 127-134: the approximation solver returns a quality, or raises
HApprox ==
    /\ hpc = "approx"
    /\ ran' = ran \cup {<<datasets[di], "Approx">>}
    /\ \/ \E q \in Qualities :
            /\ row' = [row EXCEPT !.Approx_Time = Num(0), !.Approx_Quality = Num(q)]
            /\ seen' = Saw(seen, q)
            /\ UNCHANGED raised
       \/ /\ row' = [row EXCEPT !.Approx_Time = Str("Error"),
                                !.Approx_Quality = Str("Error")]
          /\ raised' = raised \cup {<<datasets[di], "Approx">>}
          /\ UNCHANGED seen
    /\ hpc' = "ls"
    /\ UNCHANGED <<datasets, di, results, best_quality, csv, loadFailed>>
    /\ UNCHANGED svars

\* lines 136-145: the local search runs ls_runs times and returns the rounded
\* mean and the minimum of its qualities, or one of its runs raises
HLocalSearch ==
    /\ hpc = "ls"
    /\ ran' = ran \cup {<<datasets[di], "LS">>}
    /\ \/ \E qualities \in [1..ls_runs -> Qualities] :
            /\ row' = [row EXCEPT !.LS_Time = Num(0),
                                  !.LS_Quality = Num(MeanRounded(qualities))]
            /\ best_quality' = SeqMin(qualities)
            /\ seen' = Saw(seen, SeqMin(qualities))
            /\ UNCHANGED raised
       \/ /\ row' = [row EXCEPT !.LS_Time = Str("Error"), !.LS_Quality = Str("Error")]
          /\ best_quality' = Inf
          /\ raised' = raised \cup {<<datasets[di], "LS">>}
          /\ UNCHANGED seen
    /\ hpc' = "relerr"
    /\ UNCHANGED <<datasets, di, results, csv, loadFailed>>
    /\ UNCHANGED svars

\* lines 147-158: the two relative errors, and the row joins the results
HRelError ==
    /\ hpc = "relerr"
    /\ LET approx == IF IsNumber(row.Approx_Quality) /\ best_quality # Inf
                     THEN Num(calculate_relative_error(row.Approx_Quality.val, best_quality))
                     ELSE Str("N/A")
           ls == IF IsNumber(row.LS_Quality) /\ best_quality # Inf
                 THEN Num(calculate_relative_error(row.LS_Quality.val, best_quality))
                 ELSE Str("N/A")
       IN  /\ row' = [row EXCEPT !.Approx_RelError = approx, !.LS_RelError = ls]
           /\ results' = Append(results, row')
    /\ hpc' = "for"
    /\ UNCHANGED <<datasets, di, best_quality, csv, loadFailed, ran, raised, seen>>
    /\ UNCHANGED svars

\* lines 160-190: after the last dataset the rows are written to results.csv
HWrite ==
    /\ hpc = "for"
    /\ di = Len(datasets)
    /\ csv' = results
    /\ hpc' = "done"
    /\ UNCHANGED <<datasets, di, row, results, best_quality, loadFailed, ran, raised, seen>>
    /\ UNCHANGED svars

HNext == HCall \/ HParse \/ HBruteForce \/ HApprox \/ HLocalSearch \/ HRelError \/ HWrite

HarnessSpec == HInit /\ [][HNext]_vars

\* ------------------------------------------------- properties of the search
\* The length of an edge and of a closed tour, stated from the definition: the
\* sum over every position i of the edge from tour[i] to its cyclic successor.
EdgeLen(a, b) == euclidean_distance(Coord(coordinates, a), Coord(coordinates, b))

RECURSIVE CycleSum(_, _)
CycleSum(tour, i) ==
    IF i = 0 THEN 0
    ELSE EdgeLen(tour[i], tour[(i % Len(tour)) + 1]) + CycleSum(tour, i - 1)

ClosedLength(tour) == IF Len(tour) < 2 THEN 0 ELSE CycleSum(tour, Len(tour))

KeySet == Range(Keys(coordinates))

RECURSIVE Orderings(_)
Orderings(S) == IF S = {} THEN { <<>> }
                ELSE UNION { { <<x>> \o o : o \in Orderings(S \ {x}) } : x \in S }

IsPermutationOfKeys(tour) ==
    /\ Len(tour) = Cardinality(KeySet)
    /\ Range(tour) = KeySet
    /\ \A i, j \in 1..Len(tour) : tour[i] = tour[j] => i = j

Returned == pc = "done"

\* C1: for a non-empty coordinate map, whatever the budget and the clock, the
\* returned tour is a permutation of exactly the map's keys: each key once, no
\* other ID, never empty or partial.
C1_TourIsPermutation ==
    (Returned /\ Len(coordinates) >= 1) =>
        /\ result # None
        /\ result[1] # <<>>
        /\ IsPermutationOfKeys(result[1])

C1_Witness ==
    /\ Returned
    /\ Len(coordinates) >= 3
    /\ broke
    /\ evaluated # <<>>
    /\ IsPermutationOfKeys(result[1])

\* C2: on every exit path the returned distance is the length of the returned
\* tour: consecutive edges plus the closing edge, 0 for fewer than 2 vertices.
C2_DistanceMatchesTour ==
    Returned => result[2] = ClosedLength(result[1])

C2_Witness ==
    /\ Returned
    /\ broke
    /\ evaluated # <<>>
    /\ result[2] > 0
    /\ result[2] = ClosedLength(result[1])

\* C3: when the enumeration completes with no time-check firing, the returned
\* distance is the minimum closed-tour length over all n! orderings of all the
\* vertices, and the returned tour attains it.
C3_FullEnumerationOptimal ==
    (Returned /\ ~broke /\ Len(coordinates) >= 1) =>
        /\ \A o \in Orderings(KeySet) : result[2] <= ClosedLength(o)
        /\ result[1] \in Orderings(KeySet)
        /\ ClosedLength(result[1]) = result[2]

C3_Witness ==
    /\ Returned
    /\ ~broke
    /\ Len(coordinates) >= 4
    /\ result[1] # DefaultTour(vertices)
    /\ \E o \in Orderings(KeySet) : ClosedLength(o) > result[2]
    /\ \A o \in Orderings(KeySet) : result[2] <= ClosedLength(o)

FirstCheckFired == broke /\ evaluated = <<>>

\* the anchor followed by the other keys in the order the map supplies them
InputOrderTour ==
    LET anchor == SetMin(KeySet)
    IN  <<anchor>> \o SelectSeq(Keys(coordinates), LAMBDA k : k # anchor)

\* C4 as stated: when the first time-check fires, the fallback tour is the
\* anchor followed by the remaining vertices in the order in which the
\* coordinate map supplies its keys.
C4_FallbackInputOrder ==
    (Returned /\ FirstCheckFired) => result[1] = InputOrderTour

\* C4 as amended: when the first time-check fires, the fallback tour is the
\* vertices in ascending order of ID (the anchor, the smallest ID, first),
\* returned with that tour's computed distance.
C4_FallbackAscendingOrder ==
    (Returned /\ FirstCheckFired) =>
        /\ result[1] = SortSet(KeySet)
        /\ result[2] = ClosedLength(SortSet(KeySet))

C4_Witness ==
    /\ Returned
    /\ FirstCheckFired
    /\ Len(coordinates) >= 3
    /\ Keys(coordinates) # SortSet(KeySet)
    /\ result[1] = SortSet(KeySet)

\* C5 as stated: with at least 2 vertices and a budget <= 0, whatever elapsed
\* time the first time-check reads, no candidate is evaluated and the fallback
\* tour is returned. (Stated for the runs whose clock never steps back, where
\* the elapsed time read is at least 0.)
C5_NonPositiveBudgetAlwaysFallback ==
    (Returned /\ Len(coordinates) >= 2 /\ cutoff_time <= 0 /\ monotonic) =>
        /\ evaluated = <<>>
        /\ result[1] = DefaultTour(vertices)

C5_FallbackReturned ==
    (Returned /\ Len(coordinates) >= 2 /\ cutoff_time <= 0 /\ FirstCheckFired) =>
        /\ result[1] = SortSet(KeySet)
        /\ result[2] = ClosedLength(SortSet(KeySet))

C5_FirstCheckStep ==
    (pc = "check" /\ checked = 1 /\ cutoff_time <= 0) =>
        IF now > cutoff_time
        THEN pc' = "after" /\ evaluated' = <<>> /\ broke'
        ELSE pc' = "eval" /\ ~broke'

\* C5 as amended: with at least 2 vertices and a budget <= 0 the search runs
\* (the budget is not rejected) and its first time-check ends the loop exactly
\* when the elapsed time it reads is strictly greater than the budget; then no
\* candidate is evaluated and the fallback tour is returned. When the elapsed
\* time equals the budget (budget 0.0, elapsed exactly 0) the check does not
\* fire and the first candidate is evaluated.
C5_NonPositiveBudgetStrictCheck ==
    /\ []C5_FallbackReturned
    /\ [][C5_FirstCheckStep]_vars

C5_Witness ==
    /\ Returned
    /\ Len(coordinates) >= 2
    /\ cutoff_time = 0
    /\ FirstCheckFired
    /\ result[1] = SortSet(KeySet)

C6_Incumbent ==
    evaluated # <<>> =>
        /\ \A i \in 1..Len(evaluated) :
             FloatLeq(best_distance, ClosedLength(evaluated[i]))
        /\ \E i \in 1..Len(evaluated) :
             /\ best_tour = evaluated[i]
             /\ best_distance = ClosedLength(evaluated[i])

C6_NeverIncreases == FloatLeq(best_distance', best_distance)

\* C6: once a candidate has been evaluated, best_distance is at most the
\* distance of every candidate evaluated so far and best_tour is an evaluated
\* candidate of that distance; best_distance never increases from one step to
\* the next.
C6_MonotonicIncumbent ==
    /\ []C6_Incumbent
    /\ [][C6_NeverIncreases]_vars

C6_Witness ==
    /\ pc = "for"
    /\ Len(evaluated) >= 3
    /\ best_tour # evaluated[1]
    /\ best_tour # evaluated[Len(evaluated)]
    /\ FloatLess(best_distance, ClosedLength(evaluated[1]))

C9_CheckFires ==
    (pc = "check" /\ sampled' # sampled /\ now > cutoff_time) =>
        /\ pc' = "after"
        /\ evaluated' = evaluated
        /\ best_tour' = best_tour
        /\ best_distance' = best_distance

C9_NothingAfterLoop ==
    (pc \in {"after", "done"}) => evaluated' = evaluated

C9_AfterBreak ==
    (Returned /\ broke) =>
        /\ Len(evaluated) = checked - 1
        /\ \A i \in 1..Len(evaluated) : evaluated[i] # <<vertices[1]>> \o perm
        /\ atBreak[1] # None => result = atBreak

\* C9: when a time-check reads an elapsed time above the budget, the loop ends
\* at that step: the ordering that triggered the check and every later one are
\* not evaluated, the incumbent is unchanged, and that incumbent is returned
\* when there is one.
C9_StopsAtCheck ==
    /\ []C9_AfterBreak
    /\ [][C9_CheckFires]_vars
    /\ [][C9_NothingAfterLoop]_vars

C9_Witness ==
    /\ Returned
    /\ broke
    /\ checked > 1
    /\ atBreak[1] # None
    /\ result = atBreak

\* the ordinals at which the clock is to be sampled, among those already past
\* their time-check
SampledSoFar ==
    {k \in 1..(IF pc = "check" THEN checked - 1 ELSE checked) :
        k = 1 \/ k % check_interval = 0}

\* C10: the clock is sampled on the 1st candidate and on every candidate whose
\* ordinal is a multiple of check_interval, and on no other; so, for a
\* monotonic clock, at most check_interval candidates are evaluated after the
\* elapsed time first exceeds the budget, whatever the instance size.
C10_BoundedOverrun ==
    /\ sampled = SampledSoFar
    /\ monotonic => late <= check_interval

C10_Witness ==
    /\ Returned
    /\ monotonic
    /\ broke
    /\ checked > check_interval
    /\ late = check_interval

\* ------------------------------------------------ properties of the harness
TimeCell(r, s) == IF s = "BF" THEN r.BF_Time
                  ELSE IF s = "Approx" THEN r.Approx_Time ELSE r.LS_Time

QualityCell(r, s) == IF s = "BF" THEN r.BF_Quality
                     ELSE IF s = "Approx" THEN r.Approx_Quality ELSE r.LS_Quality

\* (quality - best) / best to 5 decimals, in units of 0.00001
RelativeError(quality, best) == RoundHalfEven((quality - best) * 100000, best)

\* C7: for every instance, the relative errors written for Approx and Local
\* Search are (quality - best_quality) / best_quality with best_quality the
\* least quality seen across the three solvers for that instance. (Stated for
\* the rows where the three solvers returned and that least quality is not 0.)
C7_RelErrorAgainstBestOfAll ==
    \A i \in 1..Len(results) :
        LET r == results[i]
        IN  (/\ \A s \in Solvers : IsNumber(QualityCell(r, s))
             /\ seen[i] > 0)
            => /\ r.Approx_RelError = Num(RelativeError(r.Approx_Quality.val, seen[i]))
               /\ r.LS_RelError = Num(RelativeError(r.LS_Quality.val, seen[i]))

\* C8: whatever loads and solvers raise, every dataset is taken, every solver
\* of every loaded dataset is invoked, a row is written for every loaded
\* dataset, 'Error' stands in the Time and Quality cells of exactly the solvers
\* that raised, and the run ends by writing every row.
C8_FaultIsolation ==
    hpc = "done" =>
        /\ di = Len(datasets)
        /\ csv = results
        /\ [i \in 1..Len(results) |-> results[i].Dataset.val]
             = SelectSeq(datasets, LAMBDA d : d \notin loadFailed)
        /\ \A i \in 1..Len(results) :
             LET r == results[i]
                 d == r.Dataset.val
             IN  /\ \A s \in Solvers :
                      /\ <<d, s>> \in ran
                      /\ IF <<d, s>> \in raised
                         THEN /\ TimeCell(r, s) = Str("Error")
                              /\ QualityCell(r, s) = Str("Error")
                         ELSE /\ IsNumber(TimeCell(r, s))
                              /\ IsNumber(QualityCell(r, s))
                 /\ r.BF_FullTour.kind \in {"Yes", "No"}
                 /\ r.Approx_RelError.kind \in {"num", "N/A"}
                 /\ r.LS_RelError.kind \in {"num", "N/A"}

C8_Witness ==
    /\ hpc = "done"
    /\ Len(datasets) >= 2
    /\ 1 \in loadFailed
    /\ Len(csv) >= 1
    /\ <<2, "BF">> \in raised
    /\ <<2, "Approx">> \notin raised
    /\ <<2, "LS">> \in raised
    /\ csv[1].BF_Quality = Str("Error")
    /\ IsNumber(csv[1].Approx_Quality)

\* ------------------------------------------- properties of the tie-breaking
\* a comes before b in lexicographic order of vertex IDs (same length)
LexLess(a, b) ==
    \E i \in 1..Len(a) :
        /\ a[i] < b[i]
        /\ \A j \in 1..(i - 1) : a[j] = b[j]

\* every tour that starts at the smallest ID
AnchoredTours ==
    LET anchor == SetMin(KeySet)
    IN  { <<anchor>> \o o : o \in Orderings(KeySet \ {anchor}) }

\* the index of the earliest evaluated candidate of least length
FirstBestIndex ==
    CHOOSE k \in 1..Len(evaluated) :
        /\ \A i \in 1..Len(evaluated) :
             ClosedLength(evaluated[k]) <= ClosedLength(evaluated[i])
        /\ \A i \in 1..(k - 1) :
             ClosedLength(evaluated[k]) < ClosedLength(evaluated[i])

\* the lexicographically first of the shortest anchored tours: a function of
\* the coordinate map alone
FirstShortestTour ==
    CHOOSE t \in AnchoredTours :
        /\ \A o \in AnchoredTours : ClosedLength(t) <= ClosedLength(o)
        /\ \A o \in AnchoredTours :
             ClosedLength(o) = ClosedLength(t) => (o = t \/ LexLess(t, o))

\* C11: the candidates are evaluated in lexicographic order of the ascending
\* vertex IDs (the i-th evaluated tour has exactly i-1 anchored tours before
\* it), the incumbent is the earliest evaluated candidate of least distance
\* and is what a run that evaluated anything returns, and a run that completes
\* the enumeration returns a tour and a distance that the coordinate map
\* alone determines, so two such runs on the same map return the same pair.
C11_FirstFoundWins ==
    /\ evaluated # <<>> =>
         LET tours == AnchoredTours
             k == FirstBestIndex
         IN  /\ \A i \in 1..Len(evaluated) :
                  /\ evaluated[i] \in tours
                  /\ Cardinality({o \in tours : LexLess(o, evaluated[i])}) = i - 1
             /\ best_tour = evaluated[k]
             /\ best_distance = ClosedLength(evaluated[k])
             /\ Returned => result = <<evaluated[k], ClosedLength(evaluated[k])>>
    /\ (Returned /\ ~broke /\ Len(coordinates) >= 2) =>
         LET t == FirstShortestTour
         IN  result = <<t, ClosedLength(t)>>

C11_Witness ==
    /\ Returned
    /\ ~broke
    /\ Len(evaluated) >= 6
    /\ result[1] = evaluated[FirstBestIndex]
    /\ FirstBestIndex > 1
    /\ \E j \in (FirstBestIndex + 1)..Len(evaluated) :
         ClosedLength(evaluated[j]) = result[2]
    /\ result[1] = FirstShortestTour

====
